---- MODULE Spec2Model ----
(***************************************************************************)
(* Model of nightcaste.events.EventManager (events.py): the event queue,   *)
(* the listener registry and the dispatch loop process_events /            *)
(* process_event.  The event processors (handlers) are not part of the     *)
(* module; a handler call is modelled by its possible effects on the       *)
(* EventManager: it returns, it raises, or it calls one of the manager's   *)
(* public methods before returning.                                        *)
(* nightcaste.behaviour (behaviour.py) is modelled with it: the behaviour  *)
(* registry of BehaviourManager, its update loop, and InputBehaviour,      *)
(* which publishes through the same EventManager.                          *)
(***************************************************************************)
EXTENDS Integers, Sequences, FiniteSets, TLC

\* ---------------------------------------------------------------- bounds
\* Longest queue explored (Queue.Queue() itself is unbounded).
MaxQueue == 2
\* Most registrations explored, over all event types together (the lists
\* are unbounded).
MaxListeners == 3
\* processed_events and the history counters are exact below MaxCount;
\* MaxCount stands for every count >= MaxCount.
MaxCount == MaxQueue + 1

\* ------------------------------------------------------------ value sets
None == "None"

\* Event processors known to the environment.
Handlers == {"H1", "H2"}

\* Keys under which processors are registered.
EventTypes == {"MoveAction", "BaseEvent"}

\* Identifier strings passed to throw().
Identifiers == {"MoveAction"}

\* Payloads: entity, dx, dy.
Data == {[entity |-> 1, dx |-> 1, dy |-> 0]}

\* Values of the round argument.
Rounds == {0}

\* ------------------------------------------- value sets of behaviour.py
\* Component types behaviours are bound to.
ComponentTypes == {"Input", "Position"}

\* Entity identifiers.
Entities == {7, 8}

NoEntity == 0

\* The component of type t that entity e owns.
Component(t, e) == [type |-> t, owner |-> e]

NoComponent == [type |-> None, owner |-> NoEntity]

\* What the entity manager holds: for every component type the mapping
\* from the entities that own a component of the type to that component.
StoreOf(owners) ==
    [t \in ComponentTypes |-> [e \in owners[t] |-> Component(t, e)]]

EmptyStore == StoreOf([t \in ComponentTypes |-> {}])

\* The entity stores explored: entity 7 alone owning an Input component;
\* entities 7 and 8 owning Input components, 7 also a Position component.
Stores ==
    {StoreOf([Input |-> {7}, Position |-> {}]),
     StoreOf([Input |-> {7, 8}, Position |-> {7}])}

\* entity_manager.get_all_of_type(component_type)
get_all_of_type(s, component_type) == s[component_type]

\* The keys InputBehaviour.update asks for, and the sets of keys that
\* are held down during an update.
Keys == {"K_LEFT", "K_RIGHT", "K_DOWN", "K_UP"}

PressedSets == {{}, {"K_LEFT"}, {"K_RIGHT", "K_UP"}}

\* input.is_pressed(key)
is_pressed(keys, key) == key \in keys

\* Values of update's delta_time argument, in milliseconds.
DeltaTimes == {16}

\* The names nightcaste.behaviour defines that are behaviour classes.
BehaviourClasses == {"EntityComponentBehaviour", "InputBehaviour"}

\* Behaviour names a configuration gives: the last one is not defined in
\* nightcaste.behaviour.
BehaviourNames == BehaviourClasses \cup {"WanderBehaviour"}

\* EntityComponentBehaviour.__init__ (inherited by InputBehaviour): a new
\* object of class cls.  ref tells the objects apart.  The attributes
\* entity and component are assigned before every behaviour.update call
\* and read only inside it; they are kept for the time of that call.
NewBehaviour(ref, cls) ==
    [ref |-> ref, cls |-> cls, entity |-> NoEntity, component |-> NoComponent]

\* The behaviour objects the callers make themselves and pass to
\* add_component_behaviour: two InputBehaviours.
CallerBehaviours ==
    {NewBehaviour("B1", "InputBehaviour"), NewBehaviour("B2", "InputBehaviour")}

\* The object add_comp_behaviour_from_name makes for a component type.  It
\* is referenced from behaviours[component_type] alone, so the object made
\* for the type before it is gone when this one is bound.
MadeRef(component_type) == "made_" \o component_type

\* Configurations passed to configure: lists of (component_type, name).
Binding(t, n) == [component_type |-> t, name |-> n]

Configs ==
    {<<Binding("Input", "InputBehaviour")>>,
     <<Binding("Input", "InputBehaviour"), Binding("Position", "WanderBehaviour")>>,
     <<Binding("Position", "WanderBehaviour"), Binding("Input", "InputBehaviour")>>}

\* ---------------------------------------------------------------- events
\* An event object.  cls is the name of its Python class; identifier and
\* data are the attributes set by its constructor.  inCall, ahead and
\* origin are history fields that no guard reads: inCall says the event was
\* enqueued while process_events was running, ahead counts the events
\* enqueued earlier that are still in the queue, origin says who enqueued
\* it ("caller", or "behaviour" for BehaviourManager.update).

\* BaseEvent.__init__
BaseEvent(identifier, data) ==
    [cls |-> "BaseEvent", identifier |-> identifier, data |-> data,
     inCall |-> FALSE, ahead |-> 0, origin |-> "caller"]

\* MoveAction.__init__
MoveAction(entity, dx, dy) ==
    [cls |-> "MoveAction", identifier |-> None,
     data |-> [entity |-> entity, dx |-> dx, dy |-> dy],
     inCall |-> FALSE, ahead |-> 0, origin |-> "caller"]

\* Event.type / BaseEvent.type: the class name of the event.
Type(e) == e.cls

NoEvent == [cls |-> None, identifier |-> None,
            data |-> [entity |-> 0, dx |-> 0, dy |-> 0],
            inCall |-> FALSE, ahead |-> 0, origin |-> "caller"]

\* Variant: events made by throw() are looked up under their identifier.
lookup_key_identifier(e) == IF e.identifier # None THEN e.identifier ELSE e.cls

\* The key process_event looks the event up under: event.type().
lookup_key(e) == Type(e)

\* Events the callers construct themselves and pass to enqueue_event.
DirectEvents == {MoveAction(d.entity, d.dx, d.dy) : d \in Data}

\* ------------------------------------------------------------- variables
VARIABLES
    events,            \* self.events: the queue, head first
    listeners,         \* self.listeners: event type -> list of processors
    pc,                \* where process_events stands
    round,             \* process_events' round argument
    processed_events,  \* process_events' local counter
    event,             \* process_event's event argument
    idx,               \* position of process_event's list iterator
    calls,             \* history: processors called for `event`, in order
    batch,             \* history: queue length when process_events / update started
    enq,               \* history: events enqueued during this call
    mutated,           \* history: the iterated list was changed by a handler
    removed,           \* history: last pair unregistered and not registered since
    op,                \* history: the last operation performed
    behaviours,        \* BehaviourManager.behaviours: component type -> behaviour
    store,             \* the entity manager's components, by type and entity
    pressed,           \* the keys the input module reports as pressed
    delta_time,        \* update's delta_time argument
    todo,              \* update: component types the outer loop has yet to visit
    ctype,             \* update: the outer loop's component_type
    items,             \* update: entities the inner loop has yet to visit
    updates,           \* history: the behaviour.update calls of this update
    replaced           \* history: the last binding that bind took the place of

\* The state of the EventManager and of a process_events call.
evars == <<events, listeners, pc, round, processed_events, event, idx,
           calls, batch, enq, mutated, removed, op>>

\* The state of the BehaviourManager, of its collaborators and of an
\* update call.
bvars == <<behaviours, store, pressed, delta_time, todo, ctype, items, updates,
           replaced>>

vars == <<evars, bvars>>

locals == <<round, processed_events, event, idx, calls, batch, enq, mutated>>

\* ------------------------------------------------------------- helpers
Range(s) == {s[i] : i \in 1..Len(s)}

Count(s, x) == Cardinality({i \in 1..Len(s) : s[i] = x})

Min(a, b) == IF a < b THEN a ELSE b

\* n + 1, exact below MaxCount.
Inc(n) == Min(n + 1, MaxCount)

\* History record of an operation: its name, who called it (the driver or
\* a handler) and its arguments; for remove_listener also what it did
\* (res) and whether it repeats a remove_listener call for the same pair
\* (again: "no", or "once" / "dup" after the `once` of that earlier call).
OpRes(name, by, k, h, res, again) ==
    [name |-> name, by |-> by, k |-> k, h |-> h, res |-> res, again |-> again]

Op(name, by, k, h) == OpRes(name, by, k, h, None, None)

\* History record of a remove_listener(k, h) call: once says that h was in
\* k's list at most once when it was called.
NoRemoval == [k |-> None, h |-> None, once |-> TRUE]

\* Index of the first occurrence of x in s (0 when there is none).
IndexOf(s, x) ==
    IF x \in Range(s)
    THEN CHOOSE i \in 1..Len(s) : s[i] = x /\ \A j \in 1..(i - 1) : s[j] # x
    ELSE 0

\* ---------------------------------------------------- listener registry
\* Variant: the list is left as it is.
list_remove_none(s, x) == [list |-> s, err |-> None]

\* Variant: the last item equal to x is dropped instead of the first.
list_remove_last(s, x) ==
    IF x \in Range(s)
    THEN LET i == CHOOSE n \in 1..Len(s) :
                    s[n] = x /\ \A j \in (n + 1)..Len(s) : s[j] # x
         IN [list |-> SubSeq(s, 1, i - 1) \o SubSeq(s, i + 1, Len(s)),
             err |-> None]
    ELSE [list |-> s, err |-> "ValueError"]

\* list.remove(x): drops the first item equal to x; ValueError when absent.
list_remove(s, x) ==
    IF x \in Range(s)
    THEN [list |-> SubSeq(s, 1, IndexOf(s, x) - 1)
                   \o SubSeq(s, IndexOf(s, x) + 1, Len(s)),
          err |-> None]
    ELSE [list |-> s, err |-> "ValueError"]

\* Variant: a processor already in the list is not added again.
register_listener_dedup(ls, event_type, event_processor) ==
    IF event_type \in DOMAIN ls
    THEN (IF event_processor \in Range(ls[event_type])
          THEN ls
          ELSE [ls EXCEPT ![event_type] = Append(@, event_processor)])
    ELSE [k \in DOMAIN ls \cup {event_type} |->
            IF k = event_type THEN <<event_processor>> ELSE ls[k]]

\* EventManager.register_listener: the registry after the call.
register_listener(ls, event_type, event_processor) ==
    IF event_type \in DOMAIN ls
    THEN [ls EXCEPT ![event_type] = Append(@, event_processor)]
    ELSE [k \in DOMAIN ls \cup {event_type} |->
            IF k = event_type THEN <<event_processor>> ELSE ls[k]]

\* EventManager.remove_listener: the registry after the call, and the
\* exception that leaves the call (None: it returns normally).
remove_listener(ls, event_type, event_processor) ==
    IF event_type \in DOMAIN ls
    THEN [listeners |-> [ls EXCEPT ![event_type] =
                            list_remove(@, event_processor).list],
          err |-> None]
    ELSE [listeners |-> ls, err |-> None]

\* ----------------------------------------------------------- the queue
\* Variant: a queue made with maxsize 1, whose put does not add to a full
\* queue.
put_maxsize(q, e) == IF Len(q) >= 1 THEN q ELSE Append(q, e)

\* Variant: the event is put at the head.
put_front(q, e) == <<e>> \o q

\* Queue.put: append at the tail.
put(q, e) == Append(q, e)

\* Variant: the head is read but left in the queue.
get_nowait_peek(q) == [item |-> Head(q), rest |-> q]

\* Queue.get_nowait: the item returned, and the queue left behind.
get_nowait(q) == [item |-> Head(q), rest |-> Tail(q)]

\* History bookkeeping of a put: stamp the event with the number of events
\* still queued before it and with whether process_events is running.
Stamp(e, q, running) == [e EXCEPT !.ahead = Len(q), !.inCall = running]

\* History bookkeeping of a get: the events enqueued after e have one event
\* less ahead of them.
Unstamp(q, e) ==
    [i \in 1..Len(q) |->
        IF q[i].ahead > e.ahead THEN [q[i] EXCEPT !.ahead = @ - 1] ELSE q[i]]

\* History record of a binding that add_component_behaviour replaced: the
\* component type and the behaviour that was bound to it.
NoReplacement == [t |-> None, ref |-> None]

\* ------------------------------------------------------------- initial
Init ==
    /\ events = <<>>
    /\ listeners = [k \in {} |-> <<>>]
    /\ pc = "idle"
    /\ round = 0
    /\ processed_events = 0
    /\ event = NoEvent
    /\ idx = 0
    /\ calls = <<>>
    /\ batch = 0
    /\ enq = 0
    /\ mutated = FALSE
    /\ removed = NoRemoval
    /\ op = Op("init", "driver", None, None)
    /\ behaviours = [t \in {} |-> None]
    /\ store = EmptyStore
    /\ pressed = {}
    /\ delta_time = 0
    /\ todo = {}
    /\ ctype = None
    /\ items = {}
    /\ updates = <<>>
    /\ replaced = NoReplacement

\* No call of process_events or update is running.
Quiescent == pc \in {"idle", "returned", "raised"}

Running == pc \in {"while", "for"}

\* The locals of a finished process_events call are gone.
ClearCall ==
    /\ round' = 0
    /\ processed_events' = 0
    /\ event' = NoEvent
    /\ idx' = 0
    /\ calls' = <<>>
    /\ batch' = 0
    /\ enq' = 0
    /\ mutated' = FALSE

\* The locals of a finished update call are gone; the behaviours, their
\* objects and the entity store stay.
ClearUpdate ==
    /\ pressed' = {}
    /\ delta_time' = 0
    /\ todo' = {}
    /\ ctype' = None
    /\ items' = {}
    /\ updates' = <<>>
    /\ UNCHANGED <<behaviours, store, replaced>>

\* Number of registrations the registry holds.
RECURSIVE SumLen(_, _)
SumLen(ls, ks) ==
    IF ks = {} THEN 0
    ELSE LET k == CHOOSE x \in ks : TRUE IN Len(ls[k]) + SumLen(ls, ks \ {k})

Registrations == SumLen(listeners, DOMAIN listeners)

\* History: the queue as the callers see it between two calls.
Settled(q) == [i \in 1..Len(q) |-> [q[i] EXCEPT !.inCall = FALSE]]

\* History: a removal is remembered until the process_events call that
\* follows it has ended.
Remembered == IF pc \in {"returned", "raised"} THEN NoRemoval ELSE removed

\* History: the pair (k, h) has been registered again.
Reregistered(k, h) ==
    IF Remembered.k = k /\ Remembered.h = h THEN NoRemoval ELSE Remembered

\* What a remove_listener call did: it raised, it changed the registry,
\* or it left the registry as it was.
Outcome(ls, r) ==
    IF r.err # None THEN r.err
    ELSE IF r.listeners = ls THEN "noop" ELSE "changed"

\* History: remove_listener(k, h) is called on registry ls.
Unregistered(ls, k, h) ==
    [k |-> k, h |-> h,
     once |-> (k \in DOMAIN ls => Count(ls[k], h) <= 1)]

\* History: whether remove_listener(k, h) repeats the remembered call.
Again(k, h) ==
    IF Remembered.k = k /\ Remembered.h = h
    THEN (IF Remembered.once THEN "once" ELSE "dup")
    ELSE "no"

\* ------------------------------------------- operations of the callers
RegisterListener(k, h) ==
    /\ Quiescent
    /\ Registrations < MaxListeners
    /\ listeners' = register_listener(listeners, k, h)
    /\ removed' = Reregistered(k, h)
    /\ pc' = "idle"
    /\ op' = Op("register_listener", "driver", k, h)
    /\ ClearCall
    /\ ClearUpdate
    /\ events' = Settled(events)

RemoveListener(k, h) ==
    /\ Quiescent
    /\ LET r == remove_listener(listeners, k, h) IN
        /\ listeners' = r.listeners
        /\ removed' = Unregistered(listeners, k, h)
        /\ pc' = IF r.err = None THEN "idle" ELSE "raised"
        /\ op' = OpRes("remove_listener", "driver", k, h,
                       Outcome(listeners, r), Again(k, h))
    /\ ClearCall
    /\ ClearUpdate
    /\ events' = Settled(events)

\* EventManager.enqueue_event
EnqueueEvent(e) ==
    /\ Quiescent
    /\ Len(events) < MaxQueue
    /\ events' = put(Settled(events), Stamp(e, events, FALSE))
    /\ removed' = Remembered
    /\ pc' = "idle"
    /\ op' = Op("enqueue_event", "driver", Type(e), None)
    /\ ClearCall
    /\ ClearUpdate
    /\ UNCHANGED listeners

\* EventManager.throw
Throw(eventIdentifier, data) ==
    /\ Quiescent
    /\ Len(events) < MaxQueue
    /\ events' = put(Settled(events),
                     Stamp(BaseEvent(eventIdentifier, data), events, FALSE))
    /\ removed' = Remembered
    /\ pc' = "idle"
    /\ op' = Op("throw", "driver", eventIdentifier, None)
    /\ ClearCall
    /\ ClearUpdate
    /\ UNCHANGED listeners

\* ------------------------------------------------------ process_events
\* The call is entered: processed_events = 0.  watch is history only: the
\* last remove_listener call is remembered during the call.
ProcessEvents(r, watch) ==
    /\ Quiescent
    /\ pc' = "while"
    /\ round' = r
    /\ processed_events' = 0
    /\ event' = NoEvent
    /\ idx' = 0
    /\ calls' = <<>>
    /\ batch' = Len(events)
    /\ enq' = 0
    /\ mutated' = FALSE
    /\ events' = Settled(events)
    /\ removed' = IF watch THEN Remembered ELSE NoRemoval
    /\ op' = Op("process_events", "driver", None, None)
    /\ ClearUpdate
    /\ UNCHANGED listeners

\* Variant: the loop stops after the events that were queued at entry.
QueueEmpty_Snapshot == events = <<>> \/ processed_events >= batch

\* The while condition: self.events.empty().
QueueEmpty == events = <<>>

\* Variant: the counter is not advanced.
Incremented_Skip(n) == n

\* processed_events += 1
Incremented(n) == Inc(n)

\* Variant: the list is looked up without the `in` test and the KeyError
\* leaves the call.
on_no_list_KeyError == "raised"

\* Where control goes when event.type() is not in self.listeners: the if
\* of process_event has no else, process_event returns.
on_no_list == "while"

\* One turn of the while loop: get_nowait, then process_event is entered.
\* An event whose type has no entry in listeners is done at once.
WhileGet ==
    /\ pc = "while"
    /\ ~QueueEmpty
    /\ LET g == get_nowait(events) IN
        /\ events' = Unstamp(g.rest, g.item)
        /\ event' = g.item
        /\ IF lookup_key(g.item) \in DOMAIN listeners
           THEN /\ pc' = "for"
                /\ UNCHANGED processed_events
           ELSE /\ pc' = on_no_list
                /\ processed_events' = Incremented(processed_events)
    /\ idx' = 0
    /\ calls' = <<>>
    /\ mutated' = FALSE
    /\ op' = Op("get", "driver", None, None)
    /\ UNCHANGED <<listeners, round, batch, enq, removed, bvars>>

\* The while loop ends: return processed_events.
WhileExit ==
    /\ pc = "while"
    /\ QueueEmpty
    /\ pc' = "returned"
    /\ op' = Op("return", "driver", None, None)
    /\ UNCHANGED <<events, listeners, locals, removed, bvars>>

\* ------------------------------------------------------- process_event
\* Variant: the loop stops before the last item.
HasNext_SkipLast == idx + 1 < Len(listeners[lookup_key(event)])

\* The list iterator of the for loop has another item.
HasNext == idx < Len(listeners[lookup_key(event)])

\* The item the iterator yields.
processor == listeners[lookup_key(event)][idx + 1]

\* The for loop ends, process_event returns, processed_events += 1.
ForExit ==
    /\ pc = "for"
    /\ ~HasNext
    /\ pc' = "while"
    /\ processed_events' = Incremented(processed_events)
    /\ op' = Op("for_exit", "driver", None, None)
    /\ UNCHANGED <<events, listeners, round, event, idx, calls, batch, enq,
                   mutated, removed, bvars>>

\* processor.handle_event(event, round) is called.
Called ==
    /\ pc = "for"
    /\ HasNext
    /\ calls' = Append(calls, processor)
    /\ idx' = idx + 1
    /\ UNCHANGED <<round, event, batch, processed_events, bvars>>

\* The handler returns without touching the manager.
HandleReturns ==
    /\ Called
    /\ pc' = "for"
    /\ op' = Op("handle_event", "handler", None, processor)
    /\ UNCHANGED <<events, listeners, enq, mutated, removed>>

\* Variant: the exception is swallowed and the for loop goes on.
on_fault_swallowed == "for"

\* Where control goes when handle_event raises: neither process_event
\* nor process_events has an except clause, so the call is left.
on_fault == "raised"

\* The handler raises.
HandleFaults ==
    /\ Called
    /\ pc' = on_fault
    /\ op' = Op("fault", "handler", None, processor)
    /\ UNCHANGED <<events, listeners, enq, mutated, removed>>

\* The handler calls enqueue_event and returns.
HandleEnqueues(e) ==
    /\ Called
    /\ Len(events) < MaxQueue
    /\ events' = put(events, Stamp(e, events, TRUE))
    /\ enq' = Inc(enq)
    /\ pc' = "for"
    /\ op' = Op("enqueue_event", "handler", Type(e), processor)
    /\ UNCHANGED <<listeners, mutated, removed>>

\* The handler calls throw and returns.
HandleThrows(eventIdentifier, data) ==
    /\ Called
    /\ Len(events) < MaxQueue
    /\ events' = put(events, Stamp(BaseEvent(eventIdentifier, data), events, TRUE))
    /\ enq' = Inc(enq)
    /\ pc' = "for"
    /\ op' = Op("throw", "handler", eventIdentifier, processor)
    /\ UNCHANGED <<listeners, mutated, removed>>

\* The handler calls register_listener and returns.
HandleRegisters(k, h) ==
    /\ Called
    /\ Registrations < MaxListeners
    /\ listeners' = register_listener(listeners, k, h)
    /\ mutated' = (mutated \/ k = Type(event))
    /\ removed' = Reregistered(k, h)
    /\ pc' = "for"
    /\ op' = Op("register_listener", "handler", k, h)
    /\ UNCHANGED <<events, enq>>

\* The handler calls remove_listener and returns.
HandleRemoves(k, h) ==
    /\ Called
    /\ LET r == remove_listener(listeners, k, h) IN
        /\ listeners' = r.listeners
        /\ mutated' = (mutated \/ (k = Type(event) /\ r.listeners # listeners))
        /\ removed' = Unregistered(listeners, k, h)
        /\ pc' = IF r.err = None THEN "for" ELSE "raised"
        /\ op' = OpRes("remove_listener", "handler", k, h,
                       Outcome(listeners, r), Again(k, h))
    /\ UNCHANGED <<events, enq>>

\* ---------------------------------------------------- BehaviourManager
\* Variant: a component type that has a behaviour keeps it.
add_component_behaviour_setdefault(bs, component_type, behaviour) ==
    IF component_type \in DOMAIN bs THEN bs
    ELSE [t \in DOMAIN bs \cup {component_type} |->
            IF t = component_type THEN behaviour ELSE bs[t]]

\* BehaviourManager.add_component_behaviour: the registry after
\* self.behaviours.update({component_type: behaviour}).
add_component_behaviour(bs, component_type, behaviour) ==
    [t \in DOMAIN bs \cup {component_type} |->
        IF t = component_type THEN behaviour ELSE bs[t]]

\* Variant: a name the module does not define resolves to the base class.
getattr_default(behaviour_name) ==
    IF behaviour_name \in BehaviourClasses
    THEN [cls |-> behaviour_name, err |-> None]
    ELSE [cls |-> "EntityComponentBehaviour", err |-> None]

\* getattr(module, behaviour_name): the class of that name, or the
\* AttributeError raised for a name the module does not define.
getattr(behaviour_name) ==
    IF behaviour_name \in BehaviourClasses
    THEN [cls |-> behaviour_name, err |-> None]
    ELSE [cls |-> None, err |-> "AttributeError"]

\* BehaviourManager.add_comp_behaviour_from_name: the registry and the
\* objects after the call, and the exception that leaves it (None: it
\* returns normally).  Nothing is between getattr and the caller to catch
\* the exception; the lines after getattr are not reached then.
add_comp_behaviour_from_name(bs, component_type, behaviour_name) ==
    LET behaviour_class == getattr(behaviour_name) IN
        IF behaviour_class.err # None
        THEN [behaviours |-> bs, err |-> behaviour_class.err]
        ELSE [behaviours |->
                 add_component_behaviour(
                     bs, component_type,
                     NewBehaviour(MadeRef(component_type), behaviour_class.cls)),
              err |-> None]

\* BehaviourManager.configure: add_comp_behaviour_from_name for the
\* entries of the list in order, left at the first exception.
RECURSIVE configure(_, _)
configure(bs, config) ==
    IF config = <<>> THEN [behaviours |-> bs, err |-> None]
    ELSE LET r == add_comp_behaviour_from_name(
                      bs, Head(config).component_type, Head(config).name)
         IN IF r.err # None THEN r
            ELSE configure(r.behaviours, Tail(config))

\* InputBehaviour.update: the move the pressed keys ask for.
InputMove(keys) ==
    IF is_pressed(keys, "K_LEFT") THEN [move |-> TRUE, dx |-> -1, dy |-> 0]
    ELSE IF is_pressed(keys, "K_RIGHT") THEN [move |-> TRUE, dx |-> 1, dy |-> 0]
    ELSE IF is_pressed(keys, "K_DOWN") THEN [move |-> TRUE, dx |-> 0, dy |-> 1]
    ELSE IF is_pressed(keys, "K_UP") THEN [move |-> TRUE, dx |-> 0, dy |-> -1]
    ELSE [move |-> FALSE, dx |-> 0, dy |-> 0]

\* behaviour.update(round, delta_time) by the class of the object:
\* EntityComponentBehaviour.update passes.
behaviour_update(b, keys) ==
    IF b.cls = "InputBehaviour" THEN InputMove(keys)
    ELSE [move |-> FALSE, dx |-> 0, dy |-> 0]

\* InputBehaviour.move: the arguments of event_manager.throw.
move(b, dx, dy) ==
    [eventIdentifier |-> "MoveAction",
     data |-> [entity |-> b.entity, dx |-> dx, dy |-> dy]]

\* Variant: the component attribute is left as it was.
bound_entity_only(b, entity, component) == [b EXCEPT !.entity = entity]

\* behaviour.entity = entity; behaviour.component = component
bound(b, entity, component) ==
    [b EXCEPT !.entity = entity, !.component = component]

\* History: the behaviour.update call as the behaviour sees it.
Invocation(b, r, dt) ==
    [behaviour |-> b.ref, entity |-> b.entity, component |-> b.component,
     round |-> r, delta_time |-> dt]

\* History bookkeeping of a put made from a behaviour.
StampBehaviour(e, q) == [Stamp(e, q, FALSE) EXCEPT !.origin = "behaviour"]

\* The (component type, entity) pairs for which an update with these keys
\* pressed publishes an event.
Publishing(bs, st, keys) ==
    {p \in ComponentTypes \X Entities :
        /\ p[1] \in DOMAIN bs
        /\ p[2] \in DOMAIN get_all_of_type(st, p[1])
        /\ behaviour_update(bs[p[1]], keys).move}

\* History: add_component_behaviour(t, behaviour) is called on registry bs.
Replaces(bs, t, behaviour) ==
    IF t \in DOMAIN bs /\ bs[t].ref # behaviour.ref
    THEN [t |-> t, ref |-> bs[t].ref]
    ELSE replaced

\* History: a replacement is remembered until its component type is bound
\* by name.
StillReplaced(bs, bs2) ==
    IF replaced.t # None /\ bs2[replaced.t] # bs[replaced.t]
    THEN NoReplacement
    ELSE replaced

\* The frame of the calls made on the BehaviourManager between two
\* EventManager calls.
BetweenCalls ==
    /\ ClearCall
    /\ pressed' = {}
    /\ delta_time' = 0
    /\ todo' = {}
    /\ ctype' = None
    /\ items' = {}
    /\ updates' = <<>>
    /\ events' = Settled(events)
    /\ removed' = Remembered
    /\ UNCHANGED listeners

\* BehaviourManager.add_component_behaviour
AddComponentBehaviour(component_type, behaviour) ==
    /\ Quiescent
    /\ behaviours' =
          add_component_behaviour(behaviours, component_type, behaviour)
    /\ pc' = "idle"
    /\ replaced' = Replaces(behaviours, component_type, behaviour)
    /\ op' = Op("add_component_behaviour", "driver", component_type,
                behaviour.ref)
    /\ BetweenCalls
    /\ UNCHANGED store

\* BehaviourManager.add_comp_behaviour_from_name
AddCompBehaviourFromName(component_type, behaviour_name) ==
    /\ Quiescent
    /\ LET r == add_comp_behaviour_from_name(behaviours, component_type,
                                             behaviour_name)
       IN /\ behaviours' = r.behaviours
          /\ replaced' = StillReplaced(behaviours, r.behaviours)
          /\ pc' = IF r.err = None THEN "idle" ELSE "raised"
          /\ op' = OpRes("add_comp_behaviour_from_name", "driver",
                         component_type, behaviour_name, r.err, None)
    /\ BetweenCalls
    /\ UNCHANGED store

\* BehaviourManager.configure
Configure(config) ==
    /\ Quiescent
    /\ LET r == configure(behaviours, config)
       IN /\ behaviours' = r.behaviours
          /\ replaced' = StillReplaced(behaviours, r.behaviours)
          /\ pc' = IF r.err = None THEN "idle" ELSE "raised"
          /\ op' = OpRes("configure", "driver", None, None, r.err, None)
    /\ BetweenCalls
    /\ UNCHANGED store

\* BehaviourManager.update is entered with the keys in `keys` held down.
\* Only updates whose events fit into the queue explored are entered.
Update(r, dt, keys) ==
    /\ Quiescent
    /\ Len(events) + Cardinality(Publishing(behaviours, store, keys))
          <= MaxQueue
    /\ pc' = "update"
    /\ round' = r
    /\ delta_time' = dt
    /\ pressed' = keys
    /\ todo' = DOMAIN behaviours
    /\ ctype' = None
    /\ items' = {}
    /\ updates' = <<>>
    /\ processed_events' = 0
    /\ event' = NoEvent
    /\ idx' = 0
    /\ calls' = <<>>
    /\ batch' = Len(events)
    /\ enq' = 0
    /\ mutated' = FALSE
    /\ events' = Settled(events)
    /\ removed' = Remembered
    /\ op' = Op("update", "driver", None, None)
    /\ UNCHANGED <<listeners, behaviours, store, replaced>>

\* The outer loop yields the next (component_type, behaviour) item, in no
\* particular order, and get_all_of_type is called.
UpdateFor ==
    /\ pc = "update"
    /\ \E component_type \in todo :
        /\ ctype' = component_type
        /\ todo' = todo \ {component_type}
        /\ items' = DOMAIN get_all_of_type(store, component_type)
    /\ pc' = "components"
    /\ op' = Op("update_for", "driver", None, None)
    /\ UNCHANGED <<events, listeners, locals, removed, behaviours, store,
                   pressed, delta_time, updates, replaced>>

\* The outer loop ends: update returns.
UpdateReturn ==
    /\ pc = "update"
    /\ todo = {}
    /\ pc' = "idle"
    /\ op' = Op("update_return", "driver", None, None)
    /\ UNCHANGED <<events, listeners, locals, removed, bvars>>

\* The inner loop yields the next (entity, component) item, in no
\* particular order; the attributes of the behaviour are set and its
\* update is called, which for an InputBehaviour may throw a MoveAction.
BehaviourUpdate ==
    /\ pc = "components"
    /\ \E entity \in items :
        LET b == bound(behaviours[ctype], entity,
                       get_all_of_type(store, ctype)[entity])
            m == behaviour_update(b, pressed)
            t == move(b, m.dx, m.dy)
        IN /\ items' = items \ {entity}
           /\ updates' = Append(updates, Invocation(b, round, delta_time))
           /\ events' = IF m.move
                        THEN put(events,
                                 StampBehaviour(
                                     BaseEvent(t.eventIdentifier, t.data),
                                     events))
                        ELSE events
           /\ op' = Op("behaviour_update", "behaviour", ctype, b.ref)
    /\ pc' = "components"
    /\ UNCHANGED <<listeners, locals, removed, behaviours, store, pressed,
                   delta_time, todo, ctype, replaced>>

\* The inner loop ends.
ComponentsExit ==
    /\ pc = "components"
    /\ items = {}
    /\ pc' = "update"
    /\ op' = Op("components_exit", "driver", None, None)
    /\ UNCHANGED <<events, listeners, locals, removed, bvars>>

\* ------------------------------------------------------- specification
\* A step of the running process_events call with handlers that leave the
\* manager alone.
DispatchStep ==
    \/ WhileGet
    \/ WhileExit
    \/ ForExit
    \/ HandleReturns
    \/ HandleFaults

\* A step of the running process_events call.
CallStep ==
    \/ DispatchStep
    \/ \E e \in DirectEvents : HandleEnqueues(e)
    \/ \E i \in Identifiers, d \in Data : HandleThrows(i, d)

\* A call made by the code that owns the manager, other than
\* process_events.
DriverStep ==
    \/ \E k \in EventTypes, h \in Handlers : RegisterListener(k, h)
    \/ \E k \in EventTypes, h \in Handlers : RemoveListener(k, h)
    \/ \E e \in DirectEvents : EnqueueEvent(e)
    \/ \E i \in Identifiers, d \in Data : Throw(i, d)

Next ==
    \/ DriverStep
    \/ \E r \in Rounds : ProcessEvents(r, FALSE)
    \/ CallStep

Spec == Init /\ [][Next]_vars

\* process_events runs on the caller's thread: once entered it keeps
\* stepping until it returns or raises.
LiveSpec == Spec /\ WF_vars(CallStep)

\* The same manager, with the history of the last remove_listener call
\* kept while process_events runs, and handlers that leave the manager
\* alone.
WatchNext ==
    \/ DriverStep
    \/ \E r \in Rounds : ProcessEvents(r, TRUE)
    \/ DispatchStep

WatchSpec == Init /\ [][WatchNext]_vars

\* Handlers that also register and unregister processors while an event
\* is being delivered.
ReentrantStep ==
    \/ \E k \in EventTypes, h \in Handlers : HandleRegisters(k, h)
    \/ \E k \in EventTypes, h \in Handlers : HandleRemoves(k, h)

ReentrantSpec == Init /\ [][Next \/ ReentrantStep]_vars

\* A step of a running update call.
UpdateStep ==
    \/ UpdateFor
    \/ UpdateReturn
    \/ BehaviourUpdate
    \/ ComponentsExit

\* A call made on the BehaviourManager by the code that owns it.
BindStep ==
    \/ \E t \in ComponentTypes, b \in CallerBehaviours :
          AddComponentBehaviour(t, b)
    \/ \E t \in ComponentTypes, n \in BehaviourNames :
          AddCompBehaviourFromName(t, n)
    \/ \E config \in Configs : Configure(config)

\* The BehaviourManager: its owner binds behaviours and calls update.
BehaviourNext ==
    \/ BindStep
    \/ \E r \in Rounds, dt \in DeltaTimes, keys \in PressedSets :
          Update(r, dt, keys)
    \/ UpdateStep

\* The BehaviourManager with its EventManager: the owner binds an
\* InputBehaviour, registers a processor, and calls process_events and
\* update in turn; the handlers return or raise.
RoundNext ==
    \/ \E t \in ComponentTypes :
          AddComponentBehaviour(t, NewBehaviour("B1", "InputBehaviour"))
    \/ \E k \in EventTypes : RegisterListener(k, "H1")
    \/ \E r \in Rounds : ProcessEvents(r, FALSE)
    \/ DispatchStep
    \/ \E r \in Rounds, dt \in DeltaTimes, keys \in PressedSets :
          Update(r, dt, keys)
    \/ UpdateStep

\* The entity manager handed to the constructor holds one of the stores.
BehaviourInit ==
    \E s \in Stores :
        /\ events = <<>>
        /\ listeners = [k \in {} |-> <<>>]
        /\ pc = "idle"
        /\ round = 0
        /\ processed_events = 0
        /\ event = NoEvent
        /\ idx = 0
        /\ calls = <<>>
        /\ batch = 0
        /\ enq = 0
        /\ mutated = FALSE
        /\ removed = NoRemoval
        /\ op = Op("init", "driver", None, None)
        /\ behaviours = [t \in {} |-> None]
            /\ store = s
        /\ pressed = {}
        /\ delta_time = 0
        /\ todo = {}
        /\ ctype = None
        /\ items = {}
        /\ updates = <<>>
    /\ replaced = NoReplacement

BehaviourSpec == BehaviourInit /\ [][BehaviourNext]_vars

RoundSpec == BehaviourInit /\ [][RoundNext]_vars

\* ----------------------------------------------------------------- C1
\* A handler has been called for `event`.
Delivered == calls # <<>>

\* C1 as stated: no handler is invoked, before process_events returns, for
\* an event that a handler enqueued during that same call.
C1_NotInSameCall == Delivered => ~event.inCall

\* C1 amended: the events that handlers enqueue during process_events are
\* processed by that same call, after the events queued before them: once
\* such an event is being processed only such events are left in the
\* queue, and when the call returns none of them is left for a later call.
C1_InSameCall ==
    /\ event.inCall => \A i \in 1..Len(events) : events[i].inCall
    /\ pc = "returned" => \A i \in 1..Len(events) : ~events[i].inCall

\* A call has returned whose last event was enqueued by a handler during
\* the call and was delivered to a handler.
C1_Witness == pc = "returned" /\ event.inCall /\ Delivered /\ batch = 1

\* ----------------------------------------------------------------- C2
\* A handler has just enqueued an event.
HandlerEnqueued ==
    op.by = "handler" /\ op.name \in {"enqueue_event", "throw"}

\* C2 as stated: every process_events call returns (or raises), whatever
\* the handlers enqueue.
C2_Terminates == Running ~> Quiescent

\* C2 amended: a process_events call ends unless the handlers keep
\* enqueuing events: in a call that never ends, a handler enqueues an event
\* again and again.
C2_TerminatesUnlessFed == []<>(Quiescent \/ HandlerEnqueued)

\* A call has returned although a handler enqueued an event during it.
C2_Witness == pc = "returned" /\ enq = 1 /\ processed_events = 2

\* ----------------------------------------------------------------- C3
\* C3 as stated: the count returned is the number of events that were in
\* the queue when the call started.
C3_CountIsBatch == pc = "returned" => processed_events = batch

\* C3 amended: the count returned is the number of events that were in the
\* queue when the call started plus the number of events the handlers
\* enqueued during the call.
C3_CountIsBatchPlusEnqueued ==
    pc = "returned" => processed_events = Min(batch + enq, MaxCount)

\* A call has returned that started with two events and during which a
\* handler enqueued a third, the count still being exact.
C3_Witness ==
    pc = "returned" /\ batch = 2 /\ enq = 1 /\ processed_events = 3

\* ----------------------------------------------------------------- C4
\* The processors registered for event type k, in list order.
Registered(k) == IF k \in DOMAIN listeners THEN listeners[k] ELSE <<>>

\* process_event has returned normally for `event`.
Finished == event # NoEvent /\ pc \in {"while", "returned"}

C5_PublishedKind ==
    /\ \A i \in 1..Len(events) :
          events[i].identifier # None => Type(events[i]) = events[i].identifier
    /\ (Finished /\ event.identifier # None) =>
          calls = Registered(event.identifier)

\* ----------------------------------------------------------------- C6
\* C6: an event is taken from the queue only when no event enqueued before
\* it is still queued, and the handlers called for it are the first ones
\* of its type's list, in list order.
C6_Order ==
    /\ event.ahead = 0
    /\ calls = SubSeq(Registered(Type(event)), 1, Len(calls))

\* The second event of a batch of two is being delivered, and two different
\* handlers have been called for it.
C6_Witness ==
    /\ batch = 2
    /\ processed_events = 1
    /\ Len(calls) = 2
    /\ calls[1] # calls[2]

\* ----------------------------------------------------------------- C7
\* C7 as stated: after remove_listener(k, h) the handler h is not called
\* for events of type k, and a remove_listener call that repeats one for
\* the same pair leaves the registry as it was and raises nothing.
C7_RemovedNeverInvoked ==
    /\ (removed.h # None /\ Type(event) = removed.k) =>
          removed.h \notin Range(calls)
    /\ (op.name = "remove_listener" /\ op.again # "no") => op.res = "noop"

\* C7 amended: both hold when h was in k's list at most once at the time
\* of the (first) remove_listener call; a handler registered several times
\* stays registered, is still called, and is removed once more by the
\* second call.
C7_RemovedOnceNeverInvoked ==
    /\ (removed.h # None /\ removed.once /\ Type(event) = removed.k) =>
          removed.h \notin Range(calls)
    /\ (op.name = "remove_listener" /\ op.again = "once") => op.res = "noop"

\* H1 was unregistered from the type of the event just delivered, in whose
\* list it was once, and the handler registered after it was called.
C7_Witness ==
    /\ Finished
    /\ removed = [k |-> Type(event), h |-> "H1", once |-> TRUE]
    /\ calls = <<"H2">>

\* ----------------------------------------------------------------- C8
\* s without its i-th item.
Without(s, i) ==
    [n \in 1..(Len(s) - 1) |-> IF n < i THEN s[n] ELSE s[n + 1]]

\* What remove_listener(k, h) has to make of registry ls: ls2.
RemovesFirst(ls, ls2, k, h) ==
    /\ DOMAIN ls2 = DOMAIN ls
    /\ \A j \in DOMAIN ls \ {k} : ls2[j] = ls[j]
    /\ k \in DOMAIN ls =>
          IF h \in Range(ls[k])
          THEN \E i \in 1..Len(ls[k]) :
                  /\ ls[k][i] = h
                  /\ \A j \in 1..(i - 1) : ls[k][j] # h
                  /\ ls2[k] = Without(ls[k], i)
          ELSE ls2[k] = ls[k]

\* C8: every remove_listener(k, h) call drops the first h of k's list and
\* nothing else (so h is registered, and called, once less), leaves the
\* registry and its keys as they were when h is not in k's list or k has
\* no list, and never raises.
C8_RemoveFirst ==
    [][op'.name = "remove_listener" =>
          /\ RemovesFirst(listeners, listeners', op'.k, op'.h)
          /\ op'.res \in {"noop", "changed"}
          /\ pc' # "raised"]_vars

\* The first of two registrations of a handler has been removed from a
\* list that held another handler between them.
C8_Witness ==
    /\ op.name = "remove_listener"
    /\ op.res = "changed"
    /\ op.k \in DOMAIN listeners
    /\ Len(listeners[op.k]) = 2
    /\ listeners[op.k][2] = op.h
    /\ listeners[op.k][1] # op.h

\* ----------------------------------------------------------------- C9
\* What register_listener(k, h) has to make of registry ls: ls2.
Appends(ls, ls2, k, h) ==
    /\ DOMAIN ls2 = DOMAIN ls \cup {k}
    /\ \A j \in DOMAIN ls \ {k} : ls2[j] = ls[j]
    /\ ls2[k] = (IF k \in DOMAIN ls THEN ls[k] ELSE <<>>) \o <<h>>

\* C9: every register_listener(k, h) call appends h at the end of k's
\* list, creating the list when k has none and keeping duplicates; a
\* handler is called for an event as often as it is in the list.
C9_RegisterAppends ==
    /\ [][op'.name = "register_listener" =>
              Appends(listeners, listeners', op'.k, op'.h)]_vars
    /\ [](Finished =>
              \A h \in Handlers :
                  Count(Registered(Type(event)), h) = 2 => Count(calls, h) = 2)

\* A handler registered twice for the type of the event just delivered has
\* been called twice for it.
C9_Witness ==
    /\ Finished
    /\ op.name = "for_exit"
    /\ Registered(Type(event)) = <<"H1", "H2", "H1">>
    /\ calls = <<"H1", "H2", "H1">>

\* ---------------------------------------------------------------- C10
\* C10: when a handler raises, process_events is left with the exception:
\* the handlers after it in the list are not called, the event is not
\* counted, and the call takes no further step, so no handler is called
\* for the events still queued.
C10_FaultPropagates ==
    /\ [](op.name = "fault" =>
              /\ pc = "raised"
              /\ calls[Len(calls)] = op.h
              /\ calls = SubSeq(Registered(Type(event)), 1, Len(calls)))
    /\ [][pc = "raised" => pc' \in {"idle", "while"} /\ op'.by = "driver"]_vars
    /\ [][op'.name = "fault" =>
              events' = events /\ processed_events' = processed_events]_vars

\* The first handler of two has raised while another event is still queued.
C10_Witness ==
    /\ op.name = "fault"
    /\ pc = "raised"
    /\ Len(calls) = 1
    /\ Len(Registered(Type(event))) = 2
    /\ Len(events) = 1

\* ---------------------------------------------------------------- C11
\* The behaviour.update calls made so far for components of type t.
UpdatesOf(t) ==
    {i \in 1..Len(updates) : updates[i].component.type = t}

\* C11: every add_component_behaviour(t, b) call leaves b, and nothing
\* else, bound to t and the other bindings as they were, so the registry
\* holds for every component type the behaviour bound to it last; update
\* calls for the components of type t the behaviour that is bound to t, and
\* never the behaviour whose place that one took.
C11_LastBound ==
    /\ [][op'.name = "add_component_behaviour" =>
              /\ DOMAIN behaviours' = DOMAIN behaviours \cup {op'.k}
              /\ behaviours'[op'.k].ref = op'.h
              /\ \A t \in DOMAIN behaviours \ {op'.k} :
                    behaviours'[t] = behaviours[t]]_vars
    /\ [](\A i \in 1..Len(updates) :
              /\ updates[i].component.type \in DOMAIN behaviours
              /\ updates[i].behaviour = behaviours[updates[i].component.type].ref)
    /\ [](\A i \in UpdatesOf(replaced.t) : updates[i].behaviour # replaced.ref)

\* B2 has been bound to Input in the place of B1, and an update has
\* returned that called B2 for the Input components of entities 7 and 8.
C11_Witness ==
    /\ op.name = "update_return"
    /\ replaced = [t |-> "Input", ref |-> "B1"]
    /\ behaviours["Input"].ref = "B2"
    /\ Cardinality(UpdatesOf("Input")) = 2
    /\ \A i \in UpdatesOf("Input") : updates[i].behaviour = "B2"

\* ---------------------------------------------------------------- C12
\* The behaviour.update calls made so far with entity e and component c.
UpdatesWith(e, c) ==
    {i \in 1..Len(updates) : updates[i].entity = e /\ updates[i].component = c}

\* C12: every behaviour.update call of an update is made on the behaviour
\* bound to a component type, for an (entity, component) pair the entity
\* manager holds for that type, with the round and delta_time of the
\* update; no pair is visited twice, and when update returns every pair of
\* every bound component type has been visited once.
C12_OncePerPair ==
    /\ \A i \in 1..Len(updates) :
          LET u == updates[i] IN
              /\ u.component.type \in DOMAIN behaviours
              /\ u.behaviour = behaviours[u.component.type].ref
              /\ u.entity \in DOMAIN get_all_of_type(store, u.component.type)
              /\ u.component = get_all_of_type(store, u.component.type)[u.entity]
              /\ u.round = round
              /\ u.delta_time = delta_time
              /\ Cardinality(UpdatesWith(u.entity, u.component)) = 1
    /\ op.name = "update_return" =>
          \A t \in DOMAIN behaviours :
              \A e \in DOMAIN get_all_of_type(store, t) :
                  Cardinality(UpdatesWith(e, get_all_of_type(store, t)[e])) = 1

\* An update has returned that called the behaviour bound to Input for
\* the Input components of entities 7 and 8, and no behaviour for the
\* Position component of entity 7, Position having no binding.
C12_Witness ==
    /\ op.name = "update_return"
    /\ DOMAIN behaviours = {"Input"}
    /\ DOMAIN get_all_of_type(store, "Position") = {7}
    /\ {updates[i].entity : i \in 1..Len(updates)} = {7, 8}
    /\ Len(updates) = 2

\* ---------------------------------------------------------------- C13
\* The events put into the queue since the running (or last) call began.
Published == SubSeq(events, batch + 1, Len(events))

\* An update has returned that ran with the left key pressed and an
\* InputBehaviour bound to Input, the only binding.
LeftPressedUpdate ==
    /\ op.name = "update_return"
    /\ pressed = {"K_LEFT"}
    /\ DOMAIN behaviours = {"Input"}
    /\ behaviours["Input"].cls = "InputBehaviour"

\* C13 as stated: with an InputBehaviour bound to Input and the left key
\* pressed, update enqueues one event for every entity that owns an Input
\* component and no other event, and that event is of kind MoveAction and
\* carries the entity with dx = -1, dy = 0.
C13_LeftPublishesMoveAction ==
    LeftPressedUpdate =>
        /\ Len(Published) = Cardinality(DOMAIN get_all_of_type(store, "Input"))
        /\ \A e \in DOMAIN get_all_of_type(store, "Input") :
              \E i \in 1..Len(Published) :
                  /\ Type(Published[i]) = "MoveAction"
                  /\ Published[i].data = [entity |-> e, dx |-> -1, dy |-> 0]

\* ---------------------------------------------------------------- C14
\* C14: an event whose type has no list in listeners, or an empty one, is
\* taken from the queue and dropped: no handler is called for it, nothing
\* is raised, it is counted, and the loop goes on, ending only when the
\* queue is empty.
C14_DiscardedSilently ==
    /\ [][(op'.name = "get" /\ Registered(Type(event')) = <<>>) =>
              /\ event' = Head(events)
              /\ Len(events') = Len(events) - 1
              /\ calls' = <<>>
              /\ pc' \in {"while", "for"}
              /\ pc' = "while" => processed_events' = Inc(processed_events)]_vars
    /\ [][(pc = "for" /\ Registered(Type(event)) = <<>>) =>
              /\ pc' = "while"
              /\ calls' = <<>>
              /\ processed_events' = Inc(processed_events)]_vars
    /\ [][(pc = "while" /\ pc' # "while") =>
              \/ pc' = "for"
              \/ pc' = "returned" /\ events = <<>>]_vars

\* An event whose type has no list has been dropped and counted while
\* another event is still queued.
C14_Witness ==
    /\ op.name = "get"
    /\ Type(event) \notin DOMAIN listeners
    /\ pc = "while"
    /\ calls = <<>>
    /\ processed_events = 1
    /\ Len(events) = 1

\* An event whose type has an empty list (its processors were removed) has
\* been dropped and counted while another event is still queued.
C14_WitnessEmptyList ==
    /\ op.name = "for_exit"
    /\ Type(event) \in DOMAIN listeners
    /\ listeners[Type(event)] = <<>>
    /\ calls = <<>>
    /\ processed_events = 1
    /\ Len(events) = 1

\* ---------------------------------------------------------------- C15
\* add_comp_behaviour_from_name has just been called with a name that
\* nightcaste.behaviour does not define as a behaviour class.
UnknownName(o) ==
    o.name = "add_comp_behaviour_from_name" /\ o.h \notin BehaviourClasses

Updating == pc \in {"update", "components"}

\* The events in the queue that a behaviour published.
FromBehaviour == {i \in 1..Len(events) : events[i].origin = "behaviour"}

\* C16: a step of update calls no event processor and takes nothing from
\* the queue: what a behaviour publishes is appended behind the events
\* already queued.  The process_events call that follows takes the events
\* the behaviours published in that order, calls for each of them every
\* processor registered for its type once, and, when it returns, has left
\* none of them in the queue.
C16_DeliveredByNextCall ==
    /\ [][Updating =>
              /\ pc' \in {"update", "components", "idle"}
              /\ calls' = <<>>
              /\ listeners' = listeners
              /\ Len(events') >= Len(events)
              /\ SubSeq(events', 1, Len(events)) = events
              /\ \A i \in (Len(events) + 1)..Len(events') :
                    events'[i].origin = "behaviour"]_vars
    /\ []((event.origin = "behaviour") =>
              /\ event.ahead = 0
              /\ (Finished => calls = Registered(Type(event))))
    /\ [](pc = "returned" => FromBehaviour = {} /\ processed_events = batch)

\* The process_events call after an update that published two events has
\* returned: it took both and called the registered processor for the
\* second as for the first.
C16_Witness ==
    /\ pc = "returned"
    /\ batch = 2
    /\ processed_events = 2
    /\ event.origin = "behaviour"
    /\ event.data.entity \in {7, 8}
    /\ calls = <<"H1">>

\* ---------------------------------------------------------------- C17
\* The event as its receivers see it: without the history fields.
Payload(e) == [cls |-> e.cls, identifier |-> e.identifier, data |-> e.data]

Payloads(q) == [i \in 1..Len(q) |-> Payload(q[i])]

\* C17: every enqueue_event call, by the owner or by a handler, returns
\* normally and leaves the queue one event longer: the events queued before
\* keep their places, the new event is the last, and the listener registry
\* is as it was.
C17_EnqueueAppends ==
    [][op'.name = "enqueue_event" =>
          /\ pc' # "raised"
          /\ Len(events') = Len(events) + 1
          /\ SubSeq(Payloads(events'), 1, Len(events)) = Payloads(events)
          /\ Type(events'[Len(events')]) = op'.k
          /\ listeners' = listeners]_vars

\* A handler has enqueued an event behind one that was still queued.
C17_Witness ==
    /\ op.name = "enqueue_event"
    /\ op.by = "handler"
    /\ Len(events) = 2
    /\ events[2].inCall
    /\ ~events[1].inCall
    /\ Registrations = 2

C19_RestStaysQueued ==
    /\ [][op'.name = "fault" =>
              /\ pc' = "raised"
              /\ events' = events
              /\ event' = event
              /\ (enq < MaxCount /\ processed_events < MaxCount) =>
                    Len(events') = batch + enq - processed_events - 1]_vars
    /\ [][pc = "raised" =>
              /\ Len(events') >= Len(events)
              /\ SubSeq(Payloads(events'), 1, Len(events)) = Payloads(events)
              /\ pc' = "while" =>
                    Len(events') = Len(events) /\ batch' = Len(events)]_vars
    /\ [][op'.name = "get" =>
              /\ event' = Head(events)
              /\ event'.ahead = 0
              /\ Payloads(events') = Payloads(Tail(events))]_vars

\* The handler of the first event of a batch of two has raised; the second
\* event is still queued, the first is not.
C19_Witness ==
    /\ op.name = "fault"
    /\ pc = "raised"
    /\ batch = 2
    /\ enq = 0
    /\ processed_events = 0
    /\ Len(events) = 1
    /\ Type(events[1]) # Type(event)

\* ---------------------------------------------------------------- C20
\* The items of list s behind position i.
Behind(s, i) == SubSeq(s, i + 1, Len(s))

\* C20 as stated: when the handler being called for an event of type K
\* unregisters, for K, itself or a handler registered before it, no other
\* handler misses the event: every handler that is registered for K after
\* the unregister and has not been called for the event is still ahead of
\* the loop, as often as it is registered.
C20_NoHandlerMisses ==
    [][(/\ op'.name = "remove_listener"
        /\ op'.by = "handler"
        /\ op'.k = Type(event)
        /\ pc' = "for"
        /\ IndexOf(Registered(op'.k), op'.h) \in 1..idx') =>
            \A h \in Range(listeners'[op'.k]) \ Range(calls') :
                Count(Behind(listeners'[op'.k], idx'), h)
                    = Count(listeners'[op'.k], h)]_vars

====
